---- MODULE Spec2Model ----
(***************************************************************************)
(* Circle of Fifths (src/src/CircleOfFifths.tsx).                          *)
(*                                                                         *)
(* Representation.  A JavaScript string is a sequence of characters, each  *)
(* character a one-element TLA+ string: "F#" is <<"F","#">>, "d# / eb" is  *)
(* <<"d","#"," ","/"," ","e","b">>.  The four music glyphs are single      *)
(* characters written SHARP, DSHARP, FLAT and DFLAT below.  A JavaScript   *)
(* array is a sequence, so the code's scale[i] is scale[i+1] here.         *)
(***************************************************************************)
EXTENDS Integers, Sequences, FiniteSets, TLC

\* ---------- Characters ----------------------------------------------------
SHARP  == "sharp-glyph"
DSHARP == "double-sharp-glyph"
FLAT   == "flat-glyph"
DFLAT  == "double-flat-glyph"

\* String.prototype.toUpperCase / toLowerCase on one character
toUpperCase(c) ==
  CASE c = "a" -> "A" [] c = "b" -> "B" [] c = "c" -> "C" [] c = "d" -> "D"
    [] c = "e" -> "E" [] c = "f" -> "F" [] c = "g" -> "G" [] OTHER -> c
toLowerCase(c) ==
  CASE c = "A" -> "a" [] c = "B" -> "b" [] c = "C" -> "c" [] c = "D" -> "d"
    [] c = "E" -> "e" [] c = "F" -> "f" [] c = "G" -> "g" [] OTHER -> c

\* ---------- JavaScript string primitives ----------------------------------
\* s.slice(k): the characters from 0-based index k on
slice(s, k) == IF k >= Len(s) THEN <<>> ELSE SubSeq(s, k + 1, Len(s))

\* s.includes(c) for a one-character c
includes(s, c) == \E i \in 1..Len(s) : s[i] = c

StartsWith(s, pat) ==
  /\ Len(pat) <= Len(s)
  /\ \A i \in 1..Len(pat) : s[i] = pat[i]

\* s.replace(/pat/g, rep): every non-overlapping match, left to right
RECURSIVE ReplaceAll(_, _, _)
ReplaceAll(s, pat, rep) ==
  IF s = <<>> THEN <<>>
  ELSE IF StartsWith(s, pat)
       THEN rep \o ReplaceAll(slice(s, Len(pat)), pat, rep)
       ELSE <<s[1]>> \o ReplaceAll(Tail(s), pat, rep)

\* s.replace("b", ""): a string pattern replaces the first match only
RECURSIVE ReplaceFirst(_, _, _)
ReplaceFirst(s, pat, rep) ==
  IF s = <<>> THEN <<>>
  ELSE IF StartsWith(s, pat)
       THEN rep \o slice(s, Len(pat))
       ELSE <<s[1]>> \o ReplaceFirst(Tail(s), pat, rep)

\* s.split("/"): the pieces between the separators, always at least one
RECURSIVE split(_, _)
split(s, sep) ==
  IF ~includes(s, sep) THEN <<s>>
  ELSE LET k == CHOOSE i \in 1..Len(s) :
                  s[i] = sep /\ \A j \in 1..(i - 1) : s[j] # sep
       IN <<SubSeq(s, 1, k - 1)>> \o split(slice(s, k), sep)

\* s.trim()
RECURSIVE trimStart(_)
trimStart(s) == IF s # <<>> /\ s[1] = " " THEN trimStart(Tail(s)) ELSE s
RECURSIVE trimEnd(_)
trimEnd(s) ==
  IF s # <<>> /\ s[Len(s)] = " " THEN trimEnd(SubSeq(s, 1, Len(s) - 1)) ELSE s
trim(s) == trimEnd(trimStart(s))

\* s.replace(/[^#b]/g, "")
keepAccidentals(s) == SelectSeq(s, LAMBDA c : c = "#" \/ c = "b")

\* (acc.match(/x/g)?.length ?? 0)
countChar(s, c) == Cardinality({i \in 1..Len(s) : s[i] = c})

\* ---------- Circle data ---------------------------------------------------
POSITIONS ==
  << [major |-> <<"C">>,     minor |-> <<"a">>,     acc |-> 0],
     [major |-> <<"G">>,     minor |-> <<"e">>,     acc |-> 1],
     [major |-> <<"D">>,     minor |-> <<"b">>,     acc |-> 2],
     [major |-> <<"A">>,     minor |-> <<"f","#">>, acc |-> 3],
     [major |-> <<"E">>,     minor |-> <<"c","#">>, acc |-> 4],
     [major |-> <<"B">>,     minor |-> <<"g","#">>, acc |-> 5],
     [major |-> <<"F","#"," ","/"," ","G","b">>,
      minor |-> <<"d","#"," ","/"," ","e","b">>,    acc |-> 6],
     [major |-> <<"D","b"," ","/"," ","C","#">>,
      minor |-> <<"b","b"," ","/"," ","a","#">>,    acc |-> -5],
     [major |-> <<"A","b">>, minor |-> <<"f">>,     acc |-> -4],
     [major |-> <<"E","b">>, minor |-> <<"c">>,     acc |-> -3],
     [major |-> <<"B","b">>, minor |-> <<"g">>,     acc |-> -2],
     [major |-> <<"F">>,     minor |-> <<"d">>,     acc |-> -1] >>

ORDER_SHARPS == <<"F","C","G","D","A","E","B">>
ORDER_FLATS  == <<"B","E","A","D","G","C","F">>

NAT_PC == [C |-> 0, D |-> 2, E |-> 4, F |-> 5, G |-> 7, A |-> 9, B |-> 11]

\* Major key signature counts (positive = sharps, negative = flats)
MAJOR_SIG_COUNTS ==
  (<<"C">> :> 0) @@ (<<"G">> :> 1) @@ (<<"D">> :> 2) @@ (<<"A">> :> 3) @@
  (<<"E">> :> 4) @@ (<<"B">> :> 5) @@ (<<"F","#">> :> 6) @@
  (<<"C","#">> :> 7) @@
  (<<"F">> :> -1) @@ (<<"B","b">> :> -2) @@ (<<"E","b">> :> -3) @@
  (<<"A","b">> :> -4) @@ (<<"D","b">> :> -5) @@ (<<"G","b">> :> -6) @@
  (<<"C","b">> :> -7)

\* Mutant: the entry for "f" is missing
MINOR_REL_MAJOR_noF ==
  (<<"a">> :> <<"C">>) @@ (<<"e">> :> <<"G">>) @@ (<<"b">> :> <<"D">>) @@
  (<<"f","#">> :> <<"A">>) @@ (<<"c","#">> :> <<"E">>) @@
  (<<"d">> :> <<"F">>) @@ (<<"g">> :> <<"B","b">>) @@
  (<<"c">> :> <<"E","b">>)

\* Relative major for minor names (lowercase)
MINOR_REL_MAJOR ==
  (<<"a">> :> <<"C">>) @@ (<<"e">> :> <<"G">>) @@ (<<"b">> :> <<"D">>) @@
  (<<"f","#">> :> <<"A">>) @@ (<<"c","#">> :> <<"E">>) @@
  (<<"g","#">> :> <<"B">>) @@ (<<"d","#">> :> <<"F","#">>) @@
  (<<"a","#">> :> <<"C","#">>) @@
  (<<"d">> :> <<"F">>) @@ (<<"g">> :> <<"B","b">>) @@
  (<<"c">> :> <<"E","b">>) @@ (<<"f">> :> <<"A","b">>) @@
  (<<"b","b">> :> <<"D","b">>) @@ (<<"e","b">> :> <<"G","b">>) @@
  (<<"a","b">> :> <<"C","b">>)

\* ---------- String helpers ------------------------------------------------
\* Mutant: the double glyphs become single marks
asciiNote_singleMarks(n) ==
  ReplaceAll(ReplaceAll(ReplaceAll(ReplaceAll(n,
      <<SHARP>>, <<"#">>),
      <<DSHARP>>, <<"#">>),
      <<FLAT>>, <<"b">>),
      <<DFLAT>>, <<"b">>)

asciiNote(n) ==
  ReplaceAll(ReplaceAll(ReplaceAll(ReplaceAll(n,
      <<SHARP>>, <<"#">>),
      <<DSHARP>>, <<"#","#">>),
      <<FLAT>>, <<"b">>),
      <<DFLAT>>, <<"b","b">>)

\* The last three lines of normalizeToken, for t = asciiNote(n).split("/")[0].trim()
upperToken(t) ==
  LET L    == IF t = <<>> THEN "C" ELSE toUpperCase(t[1])
      rest == keepAccidentals(slice(t, 1))
  IN <<L>> \o rest

normalizeToken(n) ==
  IF n = <<>> THEN <<"C">>
  ELSE upperToken(trim(split(asciiNote(n), "/")[1]))

\* The last three lines of normalizeMinorToken, for the same t
lowerToken(t) ==
  LET L    == IF t = <<>> THEN "a" ELSE toLowerCase(t[1])
      rest == keepAccidentals(slice(t, 1))
  IN <<L>> \o rest

normalizeMinorToken(n) == lowerToken(trim(split(asciiNote(n), "/")[1]))

pretty(n) ==
  ReplaceAll(ReplaceAll(ReplaceAll(ReplaceAll(n,
      <<"#","#">>, <<DSHARP>>),
      <<"b","b">>, <<DFLAT>>),
      <<"#">>, <<SHARP>>),
      <<"b">>, <<FLAT>>)

\* ---------- Enharmonic preference -----------------------------------------
EnhPref == {"auto", "sharps", "flats"}
Modes   == {"major", "minor"}

\* Mutant: the half before the slash is taken as the sharp one
chooseHalf_bySlash(aRaw, bRaw, posAcc, pref) ==
  IF pref = "sharps" THEN aRaw
  ELSE IF pref = "flats" THEN bRaw
  ELSE IF posAcc >= 0 THEN aRaw ELSE bRaw

\* resolveEnharmonic after the split: aRaw and bRaw are the trimmed halves
chooseHalf(aRaw, bRaw, posAcc, pref) ==
  LET aSharp    == includes(asciiNote(aRaw), "#")
      sharpName == IF aSharp THEN aRaw ELSE bRaw
      flatName  == IF aSharp THEN bRaw ELSE aRaw
  IN IF pref = "sharps" THEN sharpName
     ELSE IF pref = "flats" THEN flatName
     ELSE IF posAcc >= 0 THEN sharpName ELSE flatName

resolveEnharmonic(raw, posAcc, pref) ==
  IF ~includes(raw, "/") THEN raw
  ELSE chooseHalf(trim(split(raw, "/")[1]), trim(split(raw, "/")[2]), posAcc, pref)

\* ---------- Signatures & scale building -----------------------------------
LETTERS == <<"C","D","E","F","G","A","B">>

\* What JavaScript yields for a missing array element or table entry
UNDEFINED == "undefined"

\* JavaScript's % takes the sign of the dividend
jsMod(a, n) == IF a >= 0 THEN a % n ELSE -((-a) % n)

\* arr.indexOf(x): 0-based, -1 when absent
indexOf(arr, x) ==
  IF \E i \in 1..Len(arr) : arr[i] = x
  THEN (CHOOSE i \in 1..Len(arr) :
          arr[i] = x /\ \A j \in 1..(i - 1) : arr[j] # x) - 1
  ELSE -1

\* arr[i] for a 0-based i
at(arr, i) == IF i \in 0..(Len(arr) - 1) THEN arr[i + 1] ELSE UNDEFINED

abs(n) == IF n >= 0 THEN n ELSE -n

\* table[key] of a Record<string, T>: <<v>> for an entry v, <<>> for undefined
lookup(table, key) == IF key \in DOMAIN table THEN <<table[key]>> ELSE <<>>

\* signatureForMajorName after the table lookup.  An undefined count gives
\* nan = TRUE: the count is Math.abs(undefined) = NaN, the type "b" (undefined >= 0
\* is false) and the letter set empty (slice(0, NaN)).
sigOfCount(c) ==
  IF c = <<>> THEN [type |-> "b", count |-> 0, nan |-> TRUE, set |-> {}]
  ELSE LET count   == c[1]
           type    == IF count >= 0 THEN "#" ELSE "b"
           order   == IF type = "#" THEN ORDER_SHARPS ELSE ORDER_FLATS
           letters == SubSeq(order, 1, abs(count))
       IN [type |-> type, count |-> abs(count), nan |-> FALSE,
           set |-> {letters[i] : i \in 1..abs(count)}]

signatureForMajorName(majorName) ==
  sigOfCount(lookup(MAJOR_SIG_COUNTS, normalizeToken(majorName)))

\* Mutant: the flat branch is forgotten
applySignature_noFlats(letter, sig) ==
  IF ~sig.nan /\ sig.count = 0 THEN <<letter>>
  ELSE IF sig.type = "#" /\ letter \in sig.set THEN <<letter, "#">>
  ELSE <<letter>>

applySignature(letter, sig) ==
  IF ~sig.nan /\ sig.count = 0 THEN <<letter>>
  ELSE IF sig.type = "#" /\ letter \in sig.set THEN <<letter, "#">>
  ELSE IF sig.type = "b" /\ letter \in sig.set THEN <<letter, "b">>
  ELSE <<letter>>

\* Mutant: a sharp is appended whatever the accidental
raiseHalfStep_alwaysSharp(spelled) == spelled \o <<"#">>

raiseHalfStep(spelled) ==
  LET L   == spelled[1]
      acc == slice(spelled, 1)
  IN IF includes(acc, "b")
     THEN <<L>> \o ReplaceFirst(acc, <<"b">>, <<>>)
     ELSE <<L>> \o acc \o <<"#">>

\* relativeMajorFromMinor for the normalized minor name nm
relMajorOf(nm, pref) ==
  IF nm = <<"a","#">> \/ nm = <<"b","b">>
  THEN (IF pref = "flats" THEN <<"D","b">> ELSE <<"C","#">>)
  ELSE IF nm = <<"d","#">> \/ nm = <<"e","b">>
  THEN (IF pref = "flats" THEN <<"G","b">> ELSE <<"F","#">>)
  ELSE IF nm = <<"g","#">> \/ nm = <<"a","b">>
  THEN (IF pref = "flats" THEN <<"C","b">> ELSE <<"B">>)
  ELSE IF lookup(MINOR_REL_MAJOR, nm) # <<>> THEN lookup(MINOR_REL_MAJOR, nm)[1]
  ELSE <<"C">>

relativeMajorFromMinor(minorName, pref) ==
  relMajorOf(normalizeMinorToken(minorName), pref)

\* Array.from({length:7},(_,i)=>LETTERS[(start+i)%7]).map(L => applySignature(L, sig))
\* Mutant: the walk starts one letter late
signedLetters_offByOne(start, sig) ==
  [i \in 1..7 |-> applySignature(at(LETTERS, jsMod(start + i, 7)), sig)]

signedLetters(start, sig) ==
  [i \in 1..7 |-> applySignature(at(LETTERS, jsMod(start + (i - 1), 7)), sig)]

\* The major branch for the normalized tonic
majorScale(tonic) ==
  [signedLetters(indexOf(LETTERS, tonic[1]), signatureForMajorName(tonic))
     EXCEPT ![1] = tonic]

\* The minor branch up to `scale[0] = tonicLetter + tonic.slice(1)`, for the
\* normalized minor tonic and its relative major
minorScaleUnraised(tonic, relMaj) ==
  [signedLetters(indexOf(LETTERS, toUpperCase(tonic[1])), signatureForMajorName(relMaj))
     EXCEPT ![1] = <<toUpperCase(tonic[1])>> \o slice(tonic, 1)]

\* scale[6] = raiseHalfStep(scale[6])
raiseSeventh(scale) == [scale EXCEPT ![7] = raiseHalfStep(scale[7])]

buildScaleFromKeyName(tonicRaw, mode, enhPref) ==
  IF mode = "major"
  THEN majorScale(normalizeToken(tonicRaw))
  ELSE raiseSeventh(minorScaleUnraised(normalizeMinorToken(tonicRaw),
                                       relativeMajorFromMinor(tonicRaw, enhPref)))

\* ---------- Chords --------------------------------------------------------
DEG     == "degree-sign"
HALFDIM == "o-slash"

\* Mutant: the fifth is taken three degrees up instead of four
diatonicTriads_wrongFifth(scale, mode) ==
  [i \in 1..Len(scale) |->
     [rn    |-> <<"I">>,
      tones |-> << scale[i],
                   at(scale, jsMod((i - 1) + 2, 7)),
                   at(scale, jsMod((i - 1) + 3, 7)) >>]]

diatonicTriads(scale, mode) ==
  LET rn == IF mode = "minor"
            THEN << <<"i">>, <<"i","i",DEG>>, <<"I","I","I","+">>, <<"i","v">>,
                    <<"V">>, <<"V","I">>, <<"v","i","i",DEG>> >>
            ELSE << <<"I">>, <<"i","i">>, <<"i","i","i">>, <<"I","V">>,
                    <<"V">>, <<"v","i">>, <<"v","i","i",DEG>> >>
  IN [i \in 1..Len(scale) |->
        [rn    |-> at(rn, i - 1),
         tones |-> << scale[i],
                      at(scale, jsMod((i - 1) + 2, 7)),
                      at(scale, jsMod((i - 1) + 4, 7)) >>]]

diatonicSevenths(scale, mode) ==
  LET pc(i) == at(scale, jsMod(i, 7))
  IN IF mode = "major"
     THEN << [rn |-> <<"I","m","a","j","7">>,     tones |-> <<pc(0),pc(2),pc(4),pc(6)>>],
             [rn |-> <<"i","i","7">>,             tones |-> <<pc(1),pc(3),pc(5),pc(0)>>],
             [rn |-> <<"i","i","i","7">>,         tones |-> <<pc(2),pc(4),pc(6),pc(1)>>],
             [rn |-> <<"I","V","m","a","j","7">>, tones |-> <<pc(3),pc(5),pc(0),pc(2)>>],
             [rn |-> <<"V","7">>,                 tones |-> <<pc(4),pc(6),pc(1),pc(3)>>],
             [rn |-> <<"v","i","7">>,             tones |-> <<pc(5),pc(0),pc(2),pc(4)>>],
             [rn |-> <<"v","i","i",HALFDIM,"7">>, tones |-> <<pc(6),pc(1),pc(3),pc(5)>>] >>
     ELSE << [rn |-> <<"i"," ","m","M","a","j","7">>,     tones |-> <<pc(0),pc(2),pc(4),pc(6)>>],
             [rn |-> <<"i","i",HALFDIM,"7">>,             tones |-> <<pc(1),pc(3),pc(5),pc(0)>>],
             [rn |-> <<"I","I","I","+","m","a","j","7">>, tones |-> <<pc(2),pc(4),pc(6),pc(1)>>],
             [rn |-> <<"i","v","7">>,                     tones |-> <<pc(3),pc(5),pc(0),pc(2)>>],
             [rn |-> <<"V","7">>,                         tones |-> <<pc(4),pc(6),pc(1),pc(3)>>],
             [rn |-> <<"V","I","m","a","j","7">>,         tones |-> <<pc(5),pc(0),pc(2),pc(4)>>],
             [rn |-> <<"v","i","i",DEG,"7">>,             tones |-> <<pc(6),pc(1),pc(3),pc(5)>>] >>

\* ---------- Tuning --------------------------------------------------------
\* Mutant: the pitch class is not reduced modulo 12
midiOf_noWrap(N, oct) ==
  12 * (oct + 1) + NAT_PC[N[1]]
    + countChar(slice(N, 1), "#") - countChar(slice(N, 1), "b")

\* spelledToMidi for N = asciiNote(normalizeToken(note))
midiOf(N, oct) ==
  LET L     == N[1]
      sigma == countChar(slice(N, 1), "#") - countChar(slice(N, 1), "b")
      pc    == (NAT_PC[L] + sigma + 120) % 12
  IN 12 * (oct + 1) + pc

spelledToMidi(note, oct) == midiOf(asciiNote(normalizeToken(note)), oct)

\* 440*Math.pow(2,(m-69)/12), kept exact as the exponent's numerator over 12
midiToFreq(m) == [hz |-> 440, timesTwoToThe |-> [num |-> m - 69, den |-> 12]]

noteToFreq(n, o) == midiToFreq(spelledToMidi(n, o))

\* ==========================================================================
\* State
\* ==========================================================================
VARIABLES
  \* CircleOfFifths component: useState values
  idx, mode, showRel, useSevenths, enhPref,
  \* CircleOfFifths component: useMemo values of the current render
  tonicNameForSpelling, spelledScale, triads, sevenths,
  \* the notes (spelling and octave) whose noteToFreq the last handler passed
  \* to playChord / playFreq (<<>> when it made no playback request)
  played,
  \* useAudio hook
  ctxRef, gainRef, ctxState, masterGain, volume, muted, calls,
  \* one application of a pure function: its inputs, and its result once applied
  fnCall, fnDone, fnResult

keysVars  == <<idx, mode, showRel, useSevenths, enhPref,
               tonicNameForSpelling, spelledScale, triads, sevenths, played>>
audioVars == <<ctxRef, gainRef, ctxState, masterGain, volume, muted, calls>>
fnVars    == <<fnCall, fnDone, fnResult>>
vars      == <<keysVars, audioVars, fnVars>>

\* ==========================================================================
\* The CircleOfFifths component
\* ==========================================================================
\* tonicNameForSpelling of a render with selection (i, m, p); also the
\* resolvedTonicRaw of slice i
tonicNameFor(i, m, p) ==
  LET pos == POSITIONS[i + 1]
      raw == IF m = "major" THEN pos.major ELSE pos.minor
  IN resolveEnharmonic(raw, pos.acc, p)

\* useMemo: buildScaleFromKeyName is evaluated once per (tonic, mode, enhPref)
memoScale ==
  [i \in 0..11 |-> [m \in Modes |-> [p \in EnhPref |->
     buildScaleFromKeyName(tonicNameFor(i, m, p), m, p)]]]

\* pretty(normalizeToken(resolveEnharmonic(raw, p.acc, enhPref)))
labelFor(raw, p, pref) == pretty(normalizeToken(resolveEnharmonic(raw, p.acc, pref)))
displayMain(p, m, pref) == labelFor(IF m = "major" THEN p.major ELSE p.minor, p, pref)
displayRel(p, m, pref)  == labelFor(IF m = "major" THEN p.minor ELSE p.major, p, pref)

\* A render: the useMemo values follow the new selection
Render(i, m, p) ==
  /\ tonicNameForSpelling' = tonicNameFor(i, m, p)
  /\ spelledScale' = memoScale[i][m][p]
  /\ triads' = diatonicTriads(spelledScale', m)
  /\ sevenths' = diatonicSevenths(spelledScale', m)

\* [s0, s2, s4].map((n,j) => noteToFreq(n, j<2 ? 4 : 5)): the notes and octaves
tonicTriadVoices(scale) ==
  << [note |-> scale[1], oct |-> 4], [note |-> scale[3], oct |-> 4],
     [note |-> scale[5], oct |-> 5] >>

InitKeys ==
  /\ idx = 0
  /\ mode = "major"
  /\ showRel = TRUE
  /\ useSevenths = TRUE
  /\ enhPref = "auto"
  /\ tonicNameForSpelling = tonicNameFor(0, "major", "auto")
  /\ spelledScale = memoScale[0]["major"]["auto"]
  /\ triads = diatonicTriads(spelledScale, "major")
  /\ sevenths = diatonicSevenths(spelledScale, "major")
  /\ played = <<>>

\* keydown ArrowRight / ArrowLeft
ArrowRight ==
  /\ idx' = (idx + 1) % 12
  /\ Render(idx', mode, enhPref)
  /\ played' = <<>>
  /\ UNCHANGED <<mode, showRel, useSevenths, enhPref>>

ArrowLeft ==
  /\ idx' = (idx + 11) % 12
  /\ Render(idx', mode, enhPref)
  /\ played' = <<>>
  /\ UNCHANGED <<mode, showRel, useSevenths, enhPref>>

\* keydown "m", and the Major / Minor buttons
KeyM ==
  /\ mode' = IF mode = "major" THEN "minor" ELSE "major"
  /\ Render(idx, mode', enhPref)
  /\ played' = <<>>
  /\ UNCHANGED <<idx, showRel, useSevenths, enhPref>>

SetMode(m) ==
  /\ mode' = m
  /\ Render(idx, m, enhPref)
  /\ played' = <<>>
  /\ UNCHANGED <<idx, showRel, useSevenths, enhPref>>

\* keydown "7", and the "Use 7th chords" checkbox
Key7 ==
  /\ useSevenths' = ~useSevenths
  /\ played' = <<>>
  /\ UNCHANGED <<idx, mode, showRel, enhPref,
                 tonicNameForSpelling, spelledScale, triads, sevenths>>

SetUseSevenths(b) ==
  /\ useSevenths' = b
  /\ played' = <<>>
  /\ UNCHANGED <<idx, mode, showRel, enhPref,
                 tonicNameForSpelling, spelledScale, triads, sevenths>>

\* the "Show relative" checkbox
SetShowRel(b) ==
  /\ showRel' = b
  /\ played' = <<>>
  /\ UNCHANGED <<idx, mode, useSevenths, enhPref,
                 tonicNameForSpelling, spelledScale, triads, sevenths>>

\* keydown "h", and the Auto / sharp / flat buttons
KeyH ==
  /\ enhPref' = IF enhPref = "auto" THEN "sharps"
                ELSE IF enhPref = "sharps" THEN "flats" ELSE "auto"
  /\ Render(idx, mode, enhPref')
  /\ played' = <<>>
  /\ UNCHANGED <<idx, mode, showRel, useSevenths>>

SetEnhPref(p) ==
  /\ enhPref' = p
  /\ Render(idx, mode, p)
  /\ played' = <<>>
  /\ UNCHANGED <<idx, mode, showRel, useSevenths>>

\* ==========================================================================
\* The useAudio hook
\* ==========================================================================
\* ctxRef / gainRef hold NULL or the number of a created context / gain node.
\* ctxState[k] is the state of the k-th AudioContext created, masterGain[k] the
\* gain.value of the k-th master gain node (the one connected to destination),
\* volume is in hundredths (0.7 is 70).
NULL == 0

\* Calls of playChord / playFreq that can be in flight at once
MaxCalls == 2
CallIds == 1..MaxCalls

\* Slider values the model draws from (min 0, max 1, step 0.01)
Volumes == {0, 35, 70, 100}

IdleCall == [pc |-> "idle", kind |-> "none", n |-> 0, ctx |-> NULL, bus |-> NULL]

InitAudio ==
  /\ ctxRef = NULL
  /\ gainRef = NULL
  /\ ctxState = <<>>
  /\ masterGain = <<>>
  /\ volume = 70
  /\ muted = FALSE
  /\ calls = [c \in CallIds |-> IdleCall]

\* Mutant: the `if (!ctxRef.current)` test is missing
ensure_noGuard ==
  \E s \in {"suspended", "running"} :
    /\ ctxState' = Append(ctxState, s)
    /\ masterGain' = Append(masterGain, volume)
    /\ ctxRef' = Len(ctxState) + 1
    /\ gainRef' = Len(masterGain) + 1

\* new Ctor() starts "running", or "suspended" before a user gesture
ensure ==
  IF ctxRef = NULL
  THEN \E s \in {"suspended", "running"} :
         /\ ctxState' = Append(ctxState, s)
         /\ masterGain' = Append(masterGain, volume)
         /\ ctxRef' = Len(ctxState) + 1
         /\ gainRef' = Len(masterGain) + 1
  ELSE UNCHANGED <<ctxRef, gainRef, ctxState, masterGain>>

\* The synchronous part of resumeIfNeeded, run by call c up to its first await
resumeIfNeeded(c, kind, n) ==
  /\ ensure
  /\ LET ctx == ctxRef'
     IN calls' = [calls EXCEPT ![c] =
          [pc   |-> IF ctxState'[ctx] = "suspended" THEN "awaitResume"
                    ELSE "awaitReturn",
           kind |-> kind, n |-> n, ctx |-> ctx, bus |-> NULL]]

\* playChord(freqs) with n frequencies, up to `await resumeIfNeeded()`
playChord(c, n) ==
  /\ calls[c].pc = "idle"
  /\ resumeIfNeeded(c, "chord", n)
  /\ UNCHANGED <<volume, muted>>

\* playFreq(f), up to `await resumeIfNeeded()`
playFreq(c) ==
  /\ calls[c].pc = "idle"
  /\ resumeIfNeeded(c, "freq", 1)
  /\ UNCHANGED <<volume, muted>>

\* ctx.resume() is fulfilled: the context runs
ResumeFulfilled(c) ==
  /\ calls[c].pc = "awaitResume"
  /\ ctxState' = [ctxState EXCEPT ![calls[c].ctx] = "running"]
  /\ calls' = [calls EXCEPT ![c].pc = "awaitReturn"]
  /\ UNCHANGED <<ctxRef, gainRef, masterGain, volume, muted>>

\* ctx.resume() is rejected: caught and ignored
ResumeRejected(c) ==
  /\ calls[c].pc = "awaitResume"
  /\ calls' = [calls EXCEPT ![c].pc = "awaitReturn"]
  /\ UNCHANGED <<ctxRef, gainRef, ctxState, masterGain, volume, muted>>

\* The rest of playChord / playFreq: the oscillators are connected to the bus
\* read from gainRef and started on the context read from ctxRef
ScheduleVoices(c) ==
  /\ calls[c].pc = "awaitReturn"
  /\ calls' = [calls EXCEPT ![c].pc = "done", ![c].ctx = ctxRef, ![c].bus = gainRef]
  /\ UNCHANGED <<ctxRef, gainRef, ctxState, masterGain, volume, muted>>

\* o.stop(t+dur+0.02): the voices of call c have ended
VoicesEnded(c) ==
  /\ calls[c].pc = "done"
  /\ calls' = [calls EXCEPT ![c] = IdleCall]
  /\ UNCHANGED <<ctxRef, gainRef, ctxState, masterGain, volume, muted>>

\* useEffect(..., [volume, muted]) after a render that changed one of them
gainEffect(vol, mut) ==
  IF gainRef # NULL
  THEN masterGain' = [masterGain EXCEPT ![gainRef] = IF mut THEN 0 ELSE vol]
  ELSE UNCHANGED masterGain

\* the volume slider's onChange
setVolume(v) ==
  /\ v # volume
  /\ volume' = v
  /\ gainEffect(v, muted)
  /\ UNCHANGED <<ctxRef, gainRef, ctxState, muted, calls>>

\* the Mute button: setMuted(m => !m)
toggleMuted ==
  /\ muted' = ~muted
  /\ gainEffect(volume, muted')
  /\ UNCHANGED <<ctxRef, gainRef, ctxState, volume, calls>>

\* ==========================================================================
\* The component's handlers that request playback. Each one runs playChord /
\* playFreq up to its first await before it returns, so the context, the
\* master gain and the call in flight change in the handler's own step.
\* ==========================================================================
\* keydown " ": play the tonic triad of the current scale
KeySpace ==
  /\ played' = tonicTriadVoices(spelledScale)
  /\ \E c \in CallIds : playChord(c, 3)
  /\ UNCHANGED <<idx, mode, showRel, useSevenths, enhPref,
                 tonicNameForSpelling, spelledScale, triads, sevenths>>

\* click (or Enter / space) on slice i: select it and play its tonic triad
SliceClick(i) ==
  LET local == memoScale[i][mode][enhPref]
  IN /\ idx' = i
     /\ Render(i, mode, enhPref)
     /\ played' = tonicTriadVoices(local)
     /\ \E c \in CallIds : playChord(c, 3)
     /\ UNCHANGED <<mode, showRel, useSevenths, enhPref>>

\* mouse enters slice i: play its tonic
SliceMouseEnter(i) ==
  LET resolvedTonicRaw == tonicNameFor(i, mode, enhPref)
      tonic == normalizeToken(resolvedTonicRaw)
  IN /\ played' = << [note |-> tonic, oct |-> 4] >>
     /\ \E c \in CallIds : playFreq(c)
     /\ UNCHANGED <<idx, mode, showRel, useSevenths, enhPref,
                    tonicNameForSpelling, spelledScale, triads, sevenths>>

\* click on chord button k (0-based) of the palette
ChordClick(k) ==
  LET chords == IF useSevenths THEN sevenths ELSE triads
      c == chords[k + 1]
  IN /\ played' = [j \in 1..Len(c.tones) |->
                     IF j - 1 < 2 THEN [note |-> c.tones[j], oct |-> 4]
                                  ELSE [note |-> c.tones[j], oct |-> 5]]
     /\ \E cc \in CallIds : playChord(cc, Len(c.tones))
     /\ UNCHANGED <<idx, mode, showRel, useSevenths, enhPref,
                    tonicNameForSpelling, spelledScale, triads, sevenths>>

\* the volume slider of the header: onChange calls setVolume
VolumeChange(v) ==
  /\ setVolume(v)
  /\ played' = <<>>
  /\ UNCHANGED <<idx, mode, showRel, useSevenths, enhPref,
                 tonicNameForSpelling, spelledScale, triads, sevenths>>

\* the Mute / Unmute button of the header
MuteClick ==
  /\ toggleMuted
  /\ played' = <<>>
  /\ UNCHANGED <<idx, mode, showRel, useSevenths, enhPref,
                 tonicNameForSpelling, spelledScale, triads, sevenths>>

\* ==========================================================================
\* Pure functions applied to inputs drawn from bounded sets
\* ==========================================================================
Accidentals == { <<>>, <<"#">>, <<"#","#">>, <<"b">>, <<"b","b">> }

\* The natural letters in cyclic order
NaturalLetters == <<"C","D","E","F","G","A","B">>

\* A letter A-G followed by '', '#', '##', 'b' or 'bb'
Spellings == { <<NaturalLetters[i]>> \o a : i \in 1..7, a \in Accidentals }

\* The two halves of a dual name, written the other way round
swapHalves(raw) ==
  LET parts == split(raw, "/")
  IN trim(parts[2]) \o <<" ", "/", " ">> \o trim(parts[1])

CatalogNames == UNION { {POSITIONS[i].major, POSITIONS[i].minor} : i \in 1..12 }
DualNames    == { r \in CatalogNames : includes(r, "/") }
\* every name of the catalog, the dual ones in either slash order
RawNames     == CatalogNames \cup { swapHalves(r) : r \in DualNames }
CatalogAccs  == { POSITIONS[i].acc : i \in 1..12 }

\* Octaves -1..MaxOct (MIDI 0 is C-1)
MaxOct == 5
Octaves == -1..MaxOct

\* Arbitrary 7-note scales over the first MaxScaleNotes of these spellings
ScaleNotePool == << <<"C">>, <<"D","#">>, <<"E","b">>, <<"F","#","#">> >>
MaxScaleNotes == 2
AnyScales == [1..7 -> {ScaleNotePool[k] : k \in 1..MaxScaleNotes}]

\* (natural letter pitch class + sharps - flats) mod 12 of an ASCII spelling
PitchClass(sp) ==
  LET nat == CASE sp[1] = "C" -> 0 [] sp[1] = "D" -> 2 [] sp[1] = "E" -> 4
               [] sp[1] = "F" -> 5 [] sp[1] = "G" -> 7 [] sp[1] = "A" -> 9
               [] sp[1] = "B" -> 11
      sharps == Cardinality({i \in 2..Len(sp) : sp[i] = "#"})
      flats  == Cardinality({i \in 2..Len(sp) : sp[i] = "b"})
  IN (nat + sharps - flats + 12) % 12

NoCall == [fn |-> "none"]

InitFnIdle ==
  /\ fnCall = NoCall
  /\ fnDone = FALSE
  /\ fnResult = <<>>

InitFn ==
  /\ fnDone = FALSE
  /\ fnResult = <<>>
  /\ \/ \E r \in RawNames, a \in CatalogAccs, p \in EnhPref :
          fnCall = [fn |-> "resolveEnharmonic", raw |-> r, acc |-> a, pref |-> p]
     \/ \E a \in Spellings, b \in Spellings, o \in Octaves :
          /\ PitchClass(a) = PitchClass(b)
          /\ fnCall = [fn |-> "spelledToMidi", a |-> a, b |-> b, oct |-> o]
     \/ \E sp \in Spellings :
          fnCall = [fn |-> "roundTrip", s |-> sp]
     \/ \E sc \in AnyScales, m \in Modes :
          fnCall = [fn |-> "chords", scale |-> sc, mode |-> m]

ApplyResolveEnharmonic ==
  /\ fnCall.fn = "resolveEnharmonic" /\ ~fnDone
  /\ fnResult' = resolveEnharmonic(fnCall.raw, fnCall.acc, fnCall.pref)
  /\ fnDone' = TRUE
  /\ UNCHANGED fnCall

\* spelledToMidi of two spellings of one pitch class, at the same octave
ApplySpelledToMidi ==
  /\ fnCall.fn = "spelledToMidi" /\ ~fnDone
  /\ fnResult' = << spelledToMidi(fnCall.a, fnCall.oct),
                    spelledToMidi(fnCall.b, fnCall.oct) >>
  /\ fnDone' = TRUE
  /\ UNCHANGED fnCall

\* pretty(s), normalizeToken(pretty(s)), pretty(normalizeToken(pretty(s)))
ApplyRoundTrip ==
  /\ fnCall.fn = "roundTrip" /\ ~fnDone
  /\ fnResult' = [rendered   |-> pretty(fnCall.s),
                  normalized |-> normalizeToken(pretty(fnCall.s)),
                  rerendered |-> pretty(normalizeToken(pretty(fnCall.s)))]
  /\ fnDone' = TRUE
  /\ UNCHANGED fnCall

ApplyChords ==
  /\ fnCall.fn = "chords" /\ ~fnDone
  /\ fnResult' = [triads   |-> diatonicTriads(fnCall.scale, fnCall.mode),
                  sevenths |-> diatonicSevenths(fnCall.scale, fnCall.mode)]
  /\ fnDone' = TRUE
  /\ UNCHANGED fnCall

\* ==========================================================================
\* Specifications
\* ==========================================================================
\* The whole program: every handler of the component and every continuation
\* of a playback call
Init == InitKeys /\ InitAudio /\ InitFnIdle

Next ==
  \/ ArrowRight /\ UNCHANGED <<audioVars, fnVars>>
  \/ ArrowLeft /\ UNCHANGED <<audioVars, fnVars>>
  \/ KeyM /\ UNCHANGED <<audioVars, fnVars>>
  \/ Key7 /\ UNCHANGED <<audioVars, fnVars>>
  \/ KeyH /\ UNCHANGED <<audioVars, fnVars>>
  \/ KeySpace /\ UNCHANGED fnVars
  \/ \E m \in Modes : SetMode(m) /\ UNCHANGED <<audioVars, fnVars>>
  \/ \E b \in BOOLEAN : SetUseSevenths(b) /\ UNCHANGED <<audioVars, fnVars>>
  \/ \E b \in BOOLEAN : SetShowRel(b) /\ UNCHANGED <<audioVars, fnVars>>
  \/ \E p \in EnhPref : SetEnhPref(p) /\ UNCHANGED <<audioVars, fnVars>>
  \/ \E i \in 0..11 : SliceClick(i) /\ UNCHANGED fnVars
  \/ \E i \in 0..11 : SliceMouseEnter(i) /\ UNCHANGED fnVars
  \/ \E k \in 0..6 : ChordClick(k) /\ UNCHANGED fnVars
  \/ \E v \in Volumes : VolumeChange(v) /\ UNCHANGED fnVars
  \/ MuteClick /\ UNCHANGED fnVars
  \/ \E c \in CallIds : ResumeFulfilled(c) /\ UNCHANGED <<keysVars, fnVars>>
  \/ \E c \in CallIds : ResumeRejected(c) /\ UNCHANGED <<keysVars, fnVars>>
  \/ \E c \in CallIds : ScheduleVoices(c) /\ UNCHANGED <<keysVars, fnVars>>
  \/ \E c \in CallIds : VoicesEnded(c) /\ UNCHANGED <<keysVars, fnVars>>

Spec == Init /\ [][Next]_vars

\* The selection handlers: the handlers of the component that change the
\* selection or a display option and request no playback. They reach every
\* selection (12 positions, 2 modes, 3 preferences) the program can show.
NextSelect ==
  \/ ArrowRight /\ UNCHANGED <<audioVars, fnVars>>
  \/ ArrowLeft /\ UNCHANGED <<audioVars, fnVars>>
  \/ KeyM /\ UNCHANGED <<audioVars, fnVars>>
  \/ Key7 /\ UNCHANGED <<audioVars, fnVars>>
  \/ KeyH /\ UNCHANGED <<audioVars, fnVars>>
  \/ \E m \in Modes : SetMode(m) /\ UNCHANGED <<audioVars, fnVars>>
  \/ \E b \in BOOLEAN : SetUseSevenths(b) /\ UNCHANGED <<audioVars, fnVars>>
  \/ \E b \in BOOLEAN : SetShowRel(b) /\ UNCHANGED <<audioVars, fnVars>>
  \/ \E p \in EnhPref : SetEnhPref(p) /\ UNCHANGED <<audioVars, fnVars>>

SpecSelect == Init /\ [][NextSelect]_vars

\* The audio hook under any sequence of calls, resumes and volume changes
NextAudio ==
  \/ \E c \in CallIds, n \in {3, 4} : playChord(c, n) /\ UNCHANGED <<keysVars, fnVars>>
  \/ \E c \in CallIds : playFreq(c) /\ UNCHANGED <<keysVars, fnVars>>
  \/ \E c \in CallIds : ResumeFulfilled(c) /\ UNCHANGED <<keysVars, fnVars>>
  \/ \E c \in CallIds : ResumeRejected(c) /\ UNCHANGED <<keysVars, fnVars>>
  \/ \E c \in CallIds : ScheduleVoices(c) /\ UNCHANGED <<keysVars, fnVars>>
  \/ \E c \in CallIds : VoicesEnded(c) /\ UNCHANGED <<keysVars, fnVars>>
  \/ \E v \in Volumes : setVolume(v) /\ UNCHANGED <<keysVars, fnVars>>
  \/ toggleMuted /\ UNCHANGED <<keysVars, fnVars>>

SpecAudio == Init /\ [][NextAudio]_vars

\* One application of a pure function
InitFnSpec == InitKeys /\ InitAudio /\ InitFn

NextFn ==
  \/ ApplyResolveEnharmonic /\ UNCHANGED <<keysVars, audioVars>>
  \/ ApplySpelledToMidi /\ UNCHANGED <<keysVars, audioVars>>
  \/ ApplyRoundTrip /\ UNCHANGED <<keysVars, audioVars>>
  \/ ApplyChords /\ UNCHANGED <<keysVars, audioVars>>

SpecFn == InitFnSpec /\ [][NextFn]_vars

\* ==========================================================================
\* Properties
\* ==========================================================================
\* Semitones from spelling a up to spelling b, modulo 12
StepUp(a, b) == (PitchClass(b) - PitchClass(a) + 12) % 12

MajorSteps == <<2, 2, 1, 2, 2, 2, 1>>

\* C1: in major mode, for every position and preference, the scale built for
\* the tonic chosen by resolveEnharmonic starts at that tonic and steps
\* 2,2,1,2,2,2,1 semitones from degree to degree and from degree 7 back to the
\* tonic; the F#/Gb spoke with preference flats gives Gb Ab Bb Cb Db Eb F.
C1_MajorScaleSteps ==
  mode = "major" =>
    /\ Len(spelledScale) = 7
    /\ spelledScale[1] = normalizeToken(tonicNameForSpelling)
    /\ \A i \in 1..7 :
         StepUp(spelledScale[i], spelledScale[(i % 7) + 1]) = MajorSteps[i]
    /\ (idx = 6 /\ enhPref = "flats") =>
         spelledScale = << <<"G","b">>, <<"A","b">>, <<"B","b">>, <<"C","b">>,
                           <<"D","b">>, <<"E","b">>, <<"F">> >>

C1_Witness ==
  /\ mode = "major" /\ idx = 6 /\ enhPref = "flats"
  /\ tonicNameForSpelling = <<"G","b">>
  /\ spelledScale[4] = <<"C","b">>

\* C2: in minor mode, for every position and preference, the seventh degree of
\* the harmonic-minor scale is one semitone below the tonic, modulo 12.
C2_LeadingTone ==
  mode = "minor" => StepUp(spelledScale[7], spelledScale[1]) = 1

\* C5: in major mode the scale has 7 entries whose letters are 7 distinct
\* letters in natural cyclic order starting at the tonic's letter.
C5_MajorLetters ==
  mode = "major" =>
    /\ Len(spelledScale) = 7
    /\ Cardinality({spelledScale[i][1] : i \in 1..7}) = 7
    /\ \E start \in 1..7 :
         /\ NaturalLetters[start] = tonicNameForSpelling[1]
         /\ \A i \in 1..7 :
              spelledScale[i][1] = NaturalLetters[((start - 1 + i - 1) % 7) + 1]

C5_Witness ==
  /\ mode = "major" /\ idx = 5
  /\ spelledScale[1] = <<"B">> /\ spelledScale[2] = <<"C","#">>
  /\ spelledScale[7] = <<"A","#">>

\* The argument of raiseHalfStep in the build of the current minor scale
seventhBeforeRaise ==
  minorScaleUnraised(normalizeMinorToken(tonicNameForSpelling),
                     relativeMajorFromMinor(tonicNameForSpelling, enhPref))[7]

\* C6: every spelling of every scale built from the catalog is a letter A-G
\* followed by '', '#', '##', 'b' or 'bb', and raiseHalfStep is never applied
\* to a double-sharp.
C6_SpellingShape ==
  /\ \A i \in 1..Len(spelledScale) : spelledScale[i] \in Spellings
  /\ mode = "minor" =>
       /\ seventhBeforeRaise \in Spellings
       /\ slice(seventhBeforeRaise, 1) # <<"#","#">>
       /\ spelledScale[7] = raiseHalfStep(seventhBeforeRaise)

C6_Witness ==
  /\ mode = "minor" /\ idx = 6 /\ enhPref = "flats"
  /\ seventhBeforeRaise = <<"D","b">>
  /\ spelledScale[7] = <<"D">>

C6_WitnessDoubleSharp ==
  /\ mode = "minor" /\ idx = 6 /\ enhPref = "sharps"
  /\ seventhBeforeRaise = <<"C","#">>
  /\ spelledScale[7] = <<"C","#","#">>

\* The name handed to signatureForMajorName in the build of the current scale
signatureArgument ==
  IF mode = "major" THEN normalizeToken(tonicNameForSpelling)
  ELSE relativeMajorFromMinor(tonicNameForSpelling, enhPref)

\* The minor names relativeMajorFromMinor answers without its table
PivotMinors == { <<"a","#">>, <<"b","b">>, <<"d","#">>, <<"e","b">>,
                 <<"g","#">>, <<"a","b">> }

\* C7: for every selection every lookup succeeds: the key looked up in the
\* signature-count table is one of its 15 keys and the count is in 0..7, the
\* minor-to-relative-major lookup never falls back to "C", and the tonic's
\* letter is found among the seven natural letters.
C7_LookupsSucceed ==
  /\ Cardinality(DOMAIN MAJOR_SIG_COUNTS) = 15
  /\ lookup(MAJOR_SIG_COUNTS, normalizeToken(signatureArgument)) # <<>>
  /\ ~signatureForMajorName(signatureArgument).nan
  /\ signatureForMajorName(signatureArgument).count \in 0..7
  /\ mode = "major" =>
       indexOf(LETTERS, normalizeToken(tonicNameForSpelling)[1]) \in 0..6
  /\ mode = "minor" =>
       /\ \/ normalizeMinorToken(tonicNameForSpelling) \in PivotMinors
          \/ lookup(MINOR_REL_MAJOR, normalizeMinorToken(tonicNameForSpelling)) # <<>>
       /\ indexOf(LETTERS, toUpperCase(normalizeMinorToken(tonicNameForSpelling)[1]))
            \in 0..6

C7_Witness ==
  /\ mode = "minor" /\ idx = 8
  /\ tonicNameForSpelling = <<"f">>
  /\ signatureArgument = <<"A","b">>
  /\ signatureForMajorName(signatureArgument).count = 4

\* The two halves of a dual name, and the one that carries a sharp mark
Halves(raw) == { trim(split(raw, "/")[1]), trim(split(raw, "/")[2]) }
SharpHalf(raw) == CHOOSE h \in Halves(raw) : includes(h, "#")
FlatHalf(raw)  == CHOOSE h \in Halves(raw) : ~includes(h, "#")

\* C3: for each dual name, in either slash order, resolveEnharmonic returns
\* the sharp-marked half under sharps, the flat-marked half under flats, and
\* under auto the sharp-marked half when the accidental count is >= 0 and the
\* flat-marked half when it is < 0.
C3_SpokeResolution ==
  (fnDone /\ fnCall.fn = "resolveEnharmonic" /\ includes(fnCall.raw, "/")) =>
    fnResult = CASE fnCall.pref = "sharps" -> SharpHalf(fnCall.raw)
                 [] fnCall.pref = "flats"  -> FlatHalf(fnCall.raw)
                 [] OTHER -> IF fnCall.acc >= 0 THEN SharpHalf(fnCall.raw)
                             ELSE FlatHalf(fnCall.raw)

C3_Witness ==
  /\ fnDone /\ fnCall.fn = "resolveEnharmonic"
  /\ fnCall.raw = <<"D","b"," ","/"," ","C","#">>
  /\ fnCall.pref = "sharps"
  /\ fnResult = <<"C","#">>

C3_WitnessSwapped ==
  /\ fnDone /\ fnCall.fn = "resolveEnharmonic"
  /\ fnCall.raw = <<"G","b"," ","/"," ","F","#">>
  /\ fnCall.pref = "auto" /\ fnCall.acc = -5
  /\ fnResult = <<"G","b">>

\* C4: for any 7-note scale and either mode, diatonicTriads and
\* diatonicSevenths each return 7 chords in scale-degree order; chord i of the
\* triads has tones scale[i], scale[(i+2) mod 7], scale[(i+4) mod 7] and chord i
\* of the sevenths has those three followed by scale[(i+6) mod 7].
C4_ChordTones ==
  (fnDone /\ fnCall.fn = "chords") =>
    /\ Len(fnResult.triads) = 7
    /\ Len(fnResult.sevenths) = 7
    /\ \A i \in 0..6 :
         /\ fnResult.triads[i + 1].tones =
              << fnCall.scale[i + 1], fnCall.scale[((i + 2) % 7) + 1],
                 fnCall.scale[((i + 4) % 7) + 1] >>
         /\ fnResult.sevenths[i + 1].tones =
              << fnCall.scale[i + 1], fnCall.scale[((i + 2) % 7) + 1],
                 fnCall.scale[((i + 4) % 7) + 1], fnCall.scale[((i + 6) % 7) + 1] >>

C4_Witness ==
  /\ fnDone /\ fnCall.fn = "chords" /\ fnCall.mode = "minor"
  /\ fnCall.scale[5] # fnCall.scale[6]
  /\ fnResult.triads[6].tones[3] = fnCall.scale[3]
  /\ fnResult.sevenths[6].tones[4] = fnCall.scale[5]

\* C8: two spellings of one pitch class get the same MIDI number at the same
\* octave, namely 12*(octave+1) + the pitch class.
C8_EnharmonicMidi ==
  (fnDone /\ fnCall.fn = "spelledToMidi") =>
    /\ fnResult[1] = fnResult[2]
    /\ fnResult[1] = 12 * (fnCall.oct + 1) + PitchClass(fnCall.a)

C8_Witness ==
  /\ fnDone /\ fnCall.fn = "spelledToMidi"
  /\ fnCall.a = <<"C","#">> /\ fnCall.b = <<"D","b">> /\ fnCall.oct = 4
  /\ fnResult = <<61, 61>>

C8_WitnessWrap ==
  /\ fnDone /\ fnCall.fn = "spelledToMidi"
  /\ fnCall.a = <<"C","b">> /\ fnCall.b = <<"B">> /\ fnCall.oct = 4
  /\ fnResult = <<71, 71>>

\* C9: for every spelling s, normalizing the rendered form of s gives back s,
\* and rendering that again gives the same display string as rendering s.
C9_RoundTrip ==
  (fnDone /\ fnCall.fn = "roundTrip") =>
    /\ fnResult.normalized = fnCall.s
    /\ fnResult.rerendered = fnResult.rendered

C9_Witness ==
  /\ fnDone /\ fnCall.fn = "roundTrip"
  /\ fnCall.s = <<"B","b","b">>
  /\ fnResult.rendered = <<"B", DFLAT>>
  /\ fnResult.normalized = <<"B","b","b">>

\* C10: across any interleaving of playChord and playFreq calls, at most one
\* audio context and one master gain node are ever created, and every call
\* uses them.
C10_SingleContext ==
  /\ Len(ctxState) <= 1
  /\ Len(masterGain) <= 1
  /\ \A c \in CallIds :
       calls[c].pc # "idle" =>
         /\ ctxRef = 1 /\ gainRef = 1
         /\ calls[c].ctx = 1
         /\ calls[c].pc = "done" => calls[c].bus = 1

C10_Witness ==
  /\ calls[1].pc = "awaitResume"
  /\ calls[2].pc = "done"
  /\ Len(ctxState) = 1 /\ Len(masterGain) = 1
  /\ calls[2].ctx = 1 /\ calls[2].bus = 1

\* Quality named by a roman-numeral label: a trailing degree sign names a
\* diminished triad, a trailing plus an augmented one, otherwise upper case
\* names a major triad and lower case a minor one.
LabelQuality(rn) ==
  IF rn[Len(rn)] = DEG THEN "dim"
  ELSE IF rn[Len(rn)] = "+" THEN "aug"
  ELSE IF rn[1] \in {"I", "V"} THEN "maj"
  ELSE "min"

\* Semitone pair (root to third, third to fifth) of each quality.
QualitySteps(q) ==
  IF q = "maj" THEN <<4, 3>>
  ELSE IF q = "min" THEN <<3, 4>>
  ELSE IF q = "dim" THEN <<3, 3>>
  ELSE <<4, 4>>

\* Semitone pair of a chord's first three tones, from their pitch classes.
TriadSteps(tones) == << StepUp(tones[1], tones[2]), StepUp(tones[2], tones[3]) >>

\* C11: in every selection, in both modes, the quality named by each diatonic
\* triad's label is the quality of its tones' intervals (major 4+3, minor
\* 3+4, diminished 3+3, augmented 4+4).
C11_TriadQualities ==
  \A k \in 1..Len(triads) :
    TriadSteps(triads[k].tones) = QualitySteps(LabelQuality(triads[k].rn))

\* The same statement restricted to major mode.
C11_MajorModeQualities ==
  mode = "major" => C11_TriadQualities

\* The same statement in minor mode away from the two selections whose
\* relative major is chosen on the other spelling side than the tonic.
C11_MinorModeElsewhere ==
  (mode = "minor" /\ ~(idx = 7 /\ enhPref = "auto") /\ ~(idx = 5 /\ enhPref = "flats"))
    => C11_TriadQualities

\* Key name of the relative major whose signature the minor scale is built
\* from (and whose signature the Accidentals tile shows in minor mode).
usedRelativeMajor == relativeMajorFromMinor(tonicNameForSpelling, enhPref)

\* Key name of the relative major shown for the selected position in minor
\* mode, before glyph substitution.
shownRelativeMajor ==
  normalizeToken(resolveEnharmonic(POSITIONS[idx + 1].major, POSITIONS[idx + 1].acc, enhPref))

\* C12: in minor mode, for every position and preference, the relative major
\* whose key signature the scale uses is the same key name as the relative
\* major displayed for that position.
C12_RelativeMajorAgrees ==
  mode = "minor" => usedRelativeMajor = shownRelativeMajor

\* The same statement away from the two selections where the tonic and the
\* relative major are chosen on opposite spelling sides.
C12_AgreesElsewhere ==
  (mode = "minor" /\ ~(idx = 7 /\ enhPref = "auto") /\ ~(idx = 5 /\ enhPref = "flats"))
    => usedRelativeMajor = shownRelativeMajor

\* What is displayed is the glyph form of the compared name.
C12_ShownIsDisplayed ==
  mode = "minor" => displayRel(POSITIONS[idx + 1], mode, enhPref) = pretty(shownRelativeMajor)

\* C13: whenever the mute is on and the master gain node exists, the master
\* gain value is 0, whatever sequence of mute toggles, volume changes and
\* playback requests came before.
C13_MutedIsSilent ==
  (muted /\ gainRef # NULL) => masterGain[gainRef] = 0

\* The same statement for mutes switched on after the gain node was created:
\* a step that keeps the node and ends muted ends with gain 0 whenever it
\* started unmuted or already silent.
C13_MuteAfterCreation ==
  [][ (gainRef # NULL /\ gainRef' = gainRef /\ muted'
         /\ (~muted \/ masterGain[gainRef] = 0))
      => masterGain'[gainRef'] = 0 ]_vars

\* A node created while the mute is on starts at the slider's volume.
C13_CreatedAtVolume ==
  [][ (gainRef = NULL /\ gainRef' # NULL) => masterGain'[gainRef'] = volume ]_vars
====
